---- MODULE Spec2Model ----
(***************************************************************************)
(* Model of the KV6 voxel-model codec (src/src/kv6.rs).                    *)
(*                                                                         *)
(* KV6Format and VoxelData are decoded from / encoded into byte slices     *)
(* through scroll's cursor helpers (gread_with / gwrite_with).  A byte     *)
(* slice is a sequence of naturals in 0..255; the cursor `offset` is the   *)
(* number of bytes already consumed or produced.  Floating point pivots    *)
(* are carried as their 32-bit IEEE patterns: the codec only moves them.   *)
(***************************************************************************)
EXTENDS Naturals, Sequences, FiniteSets

\* ------------------------------------------------------------- bounds ----
MaxX == 2        \* largest x_size drawn for an input model
MaxY == 2        \* largest y_size drawn for an input model
MaxVoxels == 2   \* longest voxels vector drawn for an input model

\* ------------------------------------------------------ byte helpers ----
LE == "LE"
BE == "BE"
Endians == {LE, BE}

Reverse(s) == [i \in 1..Len(s) |-> s[Len(s) + 1 - i]]

\* An integer of `w` bytes as scroll writes it under endianness `e`.
ToBytes(v, w, e) ==
    LET le == [i \in 1..w |-> (v \div (256 ^ (i - 1))) % 256]
    IN  IF e = LE THEN le ELSE Reverse(le)

RECURSIVE SumLE(_, _)
SumLE(b, i) == IF i > Len(b) THEN 0 ELSE b[i] * (256 ^ (i - 1)) + SumLE(b, i + 1)

\* The integer scroll reads from the bytes `b` under endianness `e`.
FromBytes(b, e) == IF e = LE THEN SumLE(b, 1) ELSE SumLE(Reverse(b), 1)

\* A magic that follows the caller's endianness.
MagicEndianCtx(ctx) == ctx

\* The endianness of magic, whatever the caller's context: `BE`.
MagicEndian(ctx) == BE

\* ------------------------------------------------------- value types ----
DefaultVoxel ==
    [red |-> 0, green |-> 0, blue |-> 0, dummy |-> 0,
     height |-> 0, visibility |-> 0, normalindex |-> 0]

DefaultKV6 ==
    [magic |-> 1266055276, x_size |-> 0, y_size |-> 0, z_size |-> 0,
     x_pivot |-> 0, y_pivot |-> 0, z_pivot |-> 0,
     voxels |-> <<>>, xlen |-> <<>>, ylen |-> <<>>]

\* ----------------------------------------------- scroll cursor reads ----
ReadOk(v, n) == [ok |-> TRUE, err |-> "none", val |-> v, size |-> n]
ReadErr(kind, dflt) == [ok |-> FALSE, err |-> kind, val |-> dflt, size |-> 0]

\* src.gread_with::<uN>(offset, e): the value and the bytes consumed, or an
\* error that leaves the cursor alone.
GreadInt(src, o, w, e) ==
    IF o >= Len(src) THEN ReadErr("BadOffset", 0)
    ELSE IF w > Len(src) - o THEN ReadErr("TooBig", 0)
    ELSE ReadOk(FromBytes(SubSeq(src, o + 1, o + w), e), w)

\* ------------------------------------------------- Voxel Record codec ----
VoxelFields ==
    <<"red", "green", "blue", "dummy", "height", "visibility", "normalindex">>

\* A height of one byte.
VoxelWidthsNarrowHeight == <<1, 1, 1, 1, 1, 1, 1>>

\* u8 x 4, u16, u8 x 2
VoxelWidths == <<1, 1, 1, 1, 2, 1, 1>>

\* The endianness each field is read with.
VoxelReadEndian(endian) == <<BE, endian, endian, endian, LE, endian, endian>>

\* A height that follows the caller's endianness.
VoxelWriteEndianCtx(ctx) == <<ctx, ctx, ctx, ctx, ctx, ctx, ctx>>

\* The endianness each field is written with.
VoxelWriteEndian(ctx) == <<ctx, ctx, ctx, ctx, LE, ctx, ctx>>

RECURSIVE VoxelRead(_, _, _, _, _)
VoxelRead(src, endian, i, o, acc) ==
    IF i > Len(VoxelFields) THEN ReadOk(acc, o)
    ELSE LET r == GreadInt(src, o, VoxelWidths[i], VoxelReadEndian(endian)[i])
         IN  IF ~r.ok THEN ReadErr(r.err, DefaultVoxel)
             ELSE VoxelRead(src, endian, i + 1, o + r.size,
                            [acc EXCEPT ![VoxelFields[i]] = r.val])

\* <VoxelData as TryFromCtx>::try_from_ctx(src, endian)
VoxelData_try_from_ctx(src, endian) == VoxelRead(src, endian, 1, 0, DefaultVoxel)

\* A nested read whose size is not added to the cursor.
GreadVoxelNoAdvance(src, o, e) ==
    IF o >= Len(src) THEN ReadErr("BadOffset", DefaultVoxel)
    ELSE [VoxelData_try_from_ctx(SubSeq(src, o + 1, Len(src)), e) EXCEPT !.size = 0]

\* src.gread_with::<VoxelData>(offset, e)
GreadVoxel(src, o, e) ==
    IF o >= Len(src) THEN ReadErr("BadOffset", DefaultVoxel)
    ELSE VoxelData_try_from_ctx(SubSeq(src, o + 1, Len(src)), e)


\* ---------------------------------------------- scroll cursor writes ----
WriteOk(buf, n) == [ok |-> TRUE, err |-> "none", buf |-> buf, size |-> n]
WriteErr(kind, buf) == [ok |-> FALSE, err |-> kind, buf |-> buf, size |-> 0]

\* `bytes` with `b` stored from position o (0-based) on.
Splice(bytes, o, b) ==
    [i \in 1..Len(bytes) |-> IF i > o /\ i <= o + Len(b) THEN b[i - o] ELSE bytes[i]]

\* bytes.gwrite_with(v as uN, offset, e): the buffer and the bytes produced, or
\* an error that leaves buffer and cursor alone.
GwriteInt(bytes, o, v, w, e) ==
    IF o >= Len(bytes) THEN WriteErr("BadOffset", bytes)
    ELSE IF w > Len(bytes) - o THEN WriteErr("TooBig", bytes)
    ELSE WriteOk(Splice(bytes, o, ToBytes(v, w, e)), w)

RECURSIVE VoxelWrite(_, _, _, _, _)
VoxelWrite(v, bytes, ctx, i, o) ==
    IF i > Len(VoxelFields) THEN WriteOk(bytes, o)
    ELSE LET r == GwriteInt(bytes, o, v[VoxelFields[i]], VoxelWidths[i],
                            VoxelWriteEndian(ctx)[i])
         IN  IF ~r.ok THEN WriteErr(r.err, r.buf)
             ELSE VoxelWrite(v, r.buf, ctx, i + 1, o + r.size)

\* <VoxelData as TryIntoCtx>::try_into_ctx(self, bytes, ctx): the fields written
\* before a failing one stay in the buffer.
VoxelData_try_into_ctx(v, bytes, ctx) == VoxelWrite(v, bytes, ctx, 1, 0)

\* bytes.gwrite_with(v: VoxelData, offset, e)
GwriteVoxel(bytes, o, v, e) ==
    IF o >= Len(bytes) THEN WriteErr("BadOffset", bytes)
    ELSE LET r == VoxelData_try_into_ctx(v, SubSeq(bytes, o + 1, Len(bytes)), e)
         IN  [r EXCEPT !.buf = SubSeq(bytes, 1, o) \o r.buf]

\* ------------------------------------------------------------ inputs ----
\* The i-th voxel of an input model: colours, a reserved byte that is 128 for
\* odd i only, and a height whose two bytes differ.
VoxelAt(i) ==
    [red |-> 10 * i, green |-> 200, blue |-> 255,
     dummy |-> IF i % 2 = 1 THEN 128 ELSE 7,
     height |-> 258 * i, visibility |-> 63, normalindex |-> i]

Magics == {1266055276, 16909060}   \* 0x4B76786C "Kvxl", 0x01020304

\* A KV6Format value with x_size x, y_size y, n voxels, lx entries of xlen and a
\* ylen table of x rows of y entries.
MkKV6(mg, x, y, n, lx) ==
    [magic |-> mg, x_size |-> x, y_size |-> y, z_size |-> 9,
     x_pivot |-> 1075838976, y_pivot |-> 1069547520, z_pivot |-> 1080033280,
     voxels |-> [i \in 1..n |-> VoxelAt(i)],
     xlen |-> [i \in 1..lx |-> 258 * i + 3],
     ylen |-> [i \in 1..x |-> [j \in 1..y |-> 256 * i + j]]]

\* Models a caller may hand to encode: xlen of any length up to MaxX.
KV6Values ==
    {MkKV6(mg, x, y, n, lx) :
        mg \in Magics, x \in 0..MaxX, y \in 0..MaxY, n \in 0..MaxVoxels, lx \in 0..MaxX}

\* Models that obey the data model: xlen has x_size entries.
KV6Valid == {m \in KV6Values : Len(m.xlen) = m.x_size}

RECURSIVE Flatten(_)
Flatten(ss) == IF ss = <<>> THEN <<>> ELSE Head(ss) \o Flatten(Tail(ss))

\* The 8 bytes of a voxel record in the file layout.
VoxelImage(v) ==
    <<v.red, v.green, v.blue, v.dummy,
      v.height % 256, v.height \div 256, v.visibility, v.normalindex>>

\* The complete file of model m: header, voxels, x index and y index table.
FileImage(m, e) ==
    ToBytes(m.magic, 4, BE) \o ToBytes(m.x_size, 4, e) \o ToBytes(m.y_size, 4, e)
    \o ToBytes(m.z_size, 4, e) \o ToBytes(m.x_pivot, 4, e) \o ToBytes(m.y_pivot, 4, e)
    \o ToBytes(m.z_pivot, 4, e) \o ToBytes(Len(m.voxels), 4, e)
    \o Flatten([i \in 1..Len(m.voxels) |-> VoxelImage(m.voxels[i])])
    \o Flatten([i \in 1..Len(m.xlen) |-> ToBytes(m.xlen[i], 4, e)])
    \o Flatten([i \in 1..Len(m.ylen) |->
                  Flatten([j \in 1..Len(m.ylen[i]) |-> ToBytes(m.ylen[i][j], 2, LE)])])

\* ------------------------------------------------------------- state ----
VARIABLES
    pc,       \* the statement the running call is at ("idle": no call)
    endian,   \* the Endian context of the call
    src,      \* decode: the input slice
    offset,   \* the byte cursor of the call
    loc,      \* decode: the local variables read so far
    self,     \* encode: the value being written
    bytes,    \* encode: the destination slice
    idx,      \* encode: elements of the current vector already written
    ret,      \* the call's result
    origin,   \* where the call's input came from
    voxel,    \* Voxel Record codec: the record given to encode
    vret      \* Voxel Record codec: the call's result

vars == <<pc, endian, src, offset, loc, self, bytes, idx, ret, origin, voxel, vret>>

DefaultLocals ==
    [magic |-> 0, x_size |-> 0, y_size |-> 0, z_size |-> 0,
     x_pivot |-> 0, y_pivot |-> 0, z_pivot |-> 0,
     num_voxels |-> 0, voxels |-> <<>>, xlen |-> <<>>]

NoRet == [ok |-> FALSE, err |-> "none", val |-> DefaultKV6, size |-> 0]

Init ==
    /\ pc = "idle"
    /\ endian = LE
    /\ src = <<>>
    /\ offset = 0
    /\ loc = DefaultLocals
    /\ self = DefaultKV6
    /\ bytes = <<>>
    /\ idx = 0
    /\ ret = NoRet
    /\ origin = "none"
    /\ voxel = DefaultVoxel
    /\ vret = ReadErr("none", DefaultVoxel)

\* ------------------------------------- KV6Format::try_from_ctx (decode) ----
\* `let offset = &mut 0;`
BeginDecode(s, e, from) ==
    /\ src' = s
    /\ endian' = e
    /\ offset' = 0
    /\ loc' = DefaultLocals
    /\ ret' = NoRet
    /\ origin' = from
    /\ pc' = "from_magic"

\* A caller decodes a file, or the first k bytes of one.
CallDecode ==
    /\ pc = "idle"
    /\ \E m \in KV6Valid, e \in Endians :
         LET b == FileImage(m, e)
         IN  \E k \in 0..Len(b) :
               BeginDecode(SubSeq(b, 1, k), e, IF k = Len(b) THEN "file" ELSE "prefix")
    /\ UNCHANGED <<self, bytes, idx, voxel, vret>>

\* `let f: u32/f32 = src.gread_with(offset, e)?;`
DecField(stage, f, e, next) ==
    /\ pc = stage
    /\ LET r == GreadInt(src, offset, 4, e)
       IN  IF r.ok
           THEN /\ loc' = [loc EXCEPT ![f] = r.val]
                /\ offset' = offset + r.size
                /\ pc' = next
                /\ ret' = ret
           ELSE /\ pc' = "from_err"
                /\ ret' = ReadErr(r.err, DefaultKV6)
                /\ UNCHANGED <<loc, offset>>
    /\ UNCHANGED <<endian, src, self, bytes, idx, origin, voxel, vret>>

Dec_magic == DecField("from_magic", "magic", MagicEndian(endian), "from_x_size")
Dec_x_size == DecField("from_x_size", "x_size", endian, "from_y_size")
Dec_y_size == DecField("from_y_size", "y_size", endian, "from_z_size")
Dec_z_size == DecField("from_z_size", "z_size", endian, "from_x_pivot")
Dec_x_pivot == DecField("from_x_pivot", "x_pivot", endian, "from_y_pivot")
Dec_y_pivot == DecField("from_y_pivot", "y_pivot", endian, "from_z_pivot")
Dec_z_pivot == DecField("from_z_pivot", "z_pivot", endian, "from_num_voxels")
Dec_num_voxels == DecField("from_num_voxels", "num_voxels", endian, "from_voxels")

\* try_gread_vec_with!(src, offset, cap, ctx): read exactly `cap` elements, one
\* gread_with each; the first error is the call's error.
GreadVecStep(stage, f, cap, r, next) ==
    /\ pc = stage
    /\ IF Len(loc[f]) >= cap
       THEN /\ pc' = next
            /\ UNCHANGED <<loc, offset, ret>>
       ELSE IF r.ok
       THEN /\ loc' = [loc EXCEPT ![f] = Append(@, r.val)]
            /\ offset' = offset + r.size
            /\ UNCHANGED <<pc, ret>>
       ELSE /\ pc' = "from_err"
            /\ ret' = ReadErr(r.err, DefaultKV6)
            /\ UNCHANGED <<loc, offset>>
    /\ UNCHANGED <<endian, src, self, bytes, idx, origin, voxel, vret>>

Dec_voxels ==
    GreadVecStep("from_voxels", "voxels", loc.num_voxels,
                 GreadVoxel(src, offset, endian), "from_xlen")

Dec_xlen ==
    GreadVecStep("from_xlen", "xlen", loc.x_size,
                 GreadInt(src, offset, 4, endian), "from_return")

\* The KV6Format the decoder assembles from its locals.
KV6Assemble(l) ==
    [magic |-> l.magic, x_size |-> l.x_size, y_size |-> l.y_size, z_size |-> l.z_size,
     x_pivot |-> l.x_pivot, y_pivot |-> l.y_pivot, z_pivot |-> l.z_pivot,
     voxels |-> l.voxels, xlen |-> l.xlen, ylen |-> <<>>]

\* `Ok((KV6Format { .. }, *offset))`
Dec_return ==
    /\ pc = "from_return"
    /\ ret' = ReadOk(KV6Assemble(loc), offset)
    /\ pc' = "from_ok"
    /\ UNCHANGED <<endian, src, offset, loc, self, bytes, idx, origin, voxel, vret>>

Decode ==
    \/ Dec_magic \/ Dec_x_size \/ Dec_y_size \/ Dec_z_size
    \/ Dec_x_pivot \/ Dec_y_pivot \/ Dec_z_pivot \/ Dec_num_voxels
    \/ Dec_voxels \/ Dec_xlen \/ Dec_return

\* ------------------------------------- KV6Format::try_into_ctx (encode) ----
\* `let offset = &mut 0;` on a destination slice of `cap` bytes.
BeginEncode(m, e, cap, from) ==
    /\ self' = m
    /\ endian' = e
    /\ bytes' = [i \in 1..cap |-> 0]
    /\ offset' = 0
    /\ idx' = 0
    /\ ret' = NoRet
    /\ origin' = from
    /\ pc' = "into_magic"

\* A caller encodes a model into a slice of at most the size of its file.
CallEncode ==
    /\ pc = "idle"
    /\ \E m \in KV6Values, e \in Endians :
         \E cap \in 0..Len(FileImage(m, e)) : BeginEncode(m, e, cap, "model")
    /\ UNCHANGED <<src, loc, voxel, vret>>

\* `bytes.gwrite_with(v, offset, e)?;`
EncField(stage, v, e, next) ==
    /\ pc = stage
    /\ LET r == GwriteInt(bytes, offset, v, 4, e)
       IN  /\ bytes' = r.buf
           /\ IF r.ok
              THEN /\ offset' = offset + r.size
                   /\ pc' = next
                   /\ ret' = ret
              ELSE /\ pc' = "into_err"
                   /\ ret' = ReadErr(r.err, DefaultKV6)
                   /\ offset' = offset
    /\ UNCHANGED <<endian, src, loc, self, idx, origin, voxel, vret>>

\* A count taken from another header field instead of the vector.
VoxelCountStored(m) == m.x_size

\* `self.voxels.len() as u32` (exact for every length below 2^32)
VoxelCount(m) == Len(m.voxels)

Enc_magic == EncField("into_magic", self.magic, MagicEndian(endian), "into_x_size")
Enc_x_size == EncField("into_x_size", self.x_size, endian, "into_y_size")
Enc_y_size == EncField("into_y_size", self.y_size, endian, "into_z_size")
Enc_z_size == EncField("into_z_size", self.z_size, endian, "into_x_pivot")
Enc_x_pivot == EncField("into_x_pivot", self.x_pivot, endian, "into_y_pivot")
Enc_y_pivot == EncField("into_y_pivot", self.y_pivot, endian, "into_z_pivot")
Enc_z_pivot == EncField("into_z_pivot", self.z_pivot, endian, "into_num_voxels")
Enc_num_voxels == EncField("into_num_voxels", VoxelCount(self), endian, "into_voxels")

\* try_gwrite_vec_with!(bytes, offset, vec, ctx): write every element of `vec`,
\* one gwrite_with each; the first error is the call's error.
GwriteVecStep(stage, vec, r, next) ==
    /\ pc = stage
    /\ IF idx >= Len(vec)
       THEN /\ pc' = next
            /\ idx' = 0
            /\ UNCHANGED <<bytes, offset, ret>>
       ELSE /\ bytes' = r.buf
            /\ IF r.ok
               THEN /\ offset' = offset + r.size
                    /\ idx' = idx + 1
                    /\ UNCHANGED <<pc, ret>>
               ELSE /\ pc' = "into_err"
                    /\ ret' = ReadErr(r.err, DefaultKV6)
                    /\ UNCHANGED <<offset, idx>>
    /\ UNCHANGED <<endian, src, loc, self, origin, voxel, vret>>

Enc_voxels ==
    GwriteVecStep("into_voxels", self.voxels,
                  GwriteVoxel(bytes, offset, self.voxels[idx + 1], endian), "into_xlen")

\* The ylen table is not written: the statement after xlen is the return.
Enc_xlen ==
    GwriteVecStep("into_xlen", self.xlen,
                  GwriteInt(bytes, offset, self.xlen[idx + 1], 4, endian), "into_return")

\* `Ok(*offset)`
Enc_return ==
    /\ pc = "into_return"
    /\ ret' = ReadOk(DefaultKV6, offset)
    /\ pc' = "into_ok"
    /\ UNCHANGED <<endian, src, offset, loc, self, bytes, idx, origin, voxel, vret>>

Encode ==
    \/ Enc_magic \/ Enc_x_size \/ Enc_y_size \/ Enc_z_size
    \/ Enc_x_pivot \/ Enc_y_pivot \/ Enc_z_pivot \/ Enc_num_voxels
    \/ Enc_voxels \/ Enc_xlen \/ Enc_return

\* ------------------------------------------------------- round trips ----
\* The caller decodes what encode produced, under the same endianness.
DecodeEncoded ==
    /\ pc = "into_ok"
    /\ origin = "model"
    /\ BeginDecode(SubSeq(bytes, 1, ret.size), endian, "encoded")
    /\ UNCHANGED <<self, bytes, idx, voxel, vret>>

\* The caller encodes what decode produced from a complete file, under the same
\* endianness, into a slice as long as the file.
EncodeDecoded ==
    /\ pc = "from_ok"
    /\ origin = "file"
    /\ BeginEncode(ret.val, endian, Len(src), "decoded")
    /\ UNCHANGED <<src, loc, voxel, vret>>

\* ------------------------------------------------ Voxel Record calls ----
VoxelSlack == 2   \* bytes a slice may hold beyond one voxel record

VoxelValues ==
    {[red |-> r, green |-> 200, blue |-> 255, dummy |-> d,
      height |-> h, visibility |-> 63, normalindex |-> 1] :
        r \in {0, 255}, d \in {128, 7}, h \in {0, 258, 513, 65535}}

\* VoxelData::try_from_ctx on the first k bytes of a record followed by other bytes.
CallVoxelDecode ==
    /\ pc = "idle"
    /\ \E v \in VoxelValues, e \in Endians, k \in 0..(8 + VoxelSlack) :
         LET s == SubSeq(VoxelImage(v) \o [i \in 1..VoxelSlack |-> 170 + i], 1, k)
         IN  /\ src' = s
             /\ endian' = e
             /\ vret' = VoxelData_try_from_ctx(s, e)
    /\ pc' = "voxel_from"
    /\ origin' = "voxel"
    /\ UNCHANGED <<offset, loc, self, bytes, idx, ret, voxel>>

\* VoxelData::try_into_ctx into a zeroed slice of cap bytes.
CallVoxelEncode ==
    /\ pc = "idle"
    /\ \E v \in VoxelValues, e \in Endians, cap \in 0..(8 + VoxelSlack) :
         LET r == VoxelData_try_into_ctx(v, [i \in 1..cap |-> 0], e)
         IN  /\ voxel' = v
             /\ endian' = e
             /\ bytes' = r.buf
             /\ vret' = [ok |-> r.ok, err |-> r.err, val |-> DefaultVoxel, size |-> r.size]
    /\ pc' = "voxel_into"
    /\ origin' = "voxel"
    /\ UNCHANGED <<src, offset, loc, self, idx, ret>>

Next ==
    \/ CallDecode \/ Decode
    \/ CallEncode \/ Encode
    \/ DecodeEncoded \/ EncodeDecoded
    \/ CallVoxelDecode \/ CallVoxelEncode

Spec == Init /\ [][Next]_vars

\* ------------------------------------------------------------ claims ----
DecodeEnded == pc \in {"from_ok", "from_err"}
EncodeEnded == pc \in {"into_ok", "into_err"}
Truncation == {"BadOffset", "TooBig"}

\* x_index has size_x entries and y_index size_x rows of size_y entries.
FullyPopulated(m) ==
    /\ Len(m.xlen) = m.x_size
    /\ Len(m.ylen) = m.x_size
    /\ \A i \in 1..Len(m.ylen) : Len(m.ylen[i]) = m.y_size

\* C1: decoding what encode produced from a fully populated model, under the
\* same endianness, succeeds and yields that model, y_index included.
C1_RoundTripIdentity ==
    (origin = "encoded" /\ DecodeEnded /\ FullyPopulated(self))
        => (ret.ok /\ ret.val = self)

\* C2: a successfully decoded model has size_x entries of x_index and size_x
\* rows of size_y entries of y_index.
C2_IndexLengths == pc = "from_ok" => FullyPopulated(ret.val)

\* C3: decoding a complete file succeeds, and encoding the result reproduces
\* the file byte for byte.
C3_ByteFidelity ==
    /\ (origin = "file" /\ DecodeEnded) => ret.ok
    /\ (origin = "decoded" /\ EncodeEnded)
           => (ret.ok /\ SubSeq(bytes, 1, ret.size) = src)

\* C4: the decoded model holds as many voxels as the count at offset 28 says,
\* and the count encode writes at offset 28 is the length of the voxels it is
\* given.
C4_CountConsistency ==
    /\ pc = "from_ok" => Len(ret.val.voxels) = FromBytes(SubSeq(src, 29, 32), endian)
    /\ pc = "into_ok" => FromBytes(SubSeq(bytes, 29, 32), endian) = Len(self.voxels)

\* C4 witness: a decoded file of MaxVoxels voxels has been encoded again.
C4_Witness ==
    pc = "into_ok" /\ origin = "decoded" /\ Len(self.voxels) = MaxVoxels /\ MaxVoxels > 0

\* C5: decoding a strict prefix of a complete file fails with a truncation
\* error.
C5_TruncationSafety ==
    (origin = "prefix" /\ DecodeEnded) => (pc = "from_err" /\ ret.err \in Truncation)

\* C6: encode returns 32 + 8 * voxel_count + 4 * size_x + 2 * size_x * size_y.
C6_EncodeSize ==
    (pc = "into_ok" /\ FullyPopulated(self))
        => ret.size = 32 + 8 * Len(self.voxels) + 4 * self.x_size
                         + 2 * self.x_size * self.y_size

\* C7: a successful voxel decode consumes 8 bytes, a slice of fewer than 8
\* bytes gives a truncation error and no record, and a voxel encode (whatever
\* the field values) writes 8 bytes, which it does whenever 8 bytes are there.
C7_VoxelRecordWidth ==
    /\ pc = "voxel_from" =>
         /\ vret.ok => vret.size = 8
         /\ Len(src) < 8 => (~vret.ok /\ vret.err \in Truncation /\ vret.val = DefaultVoxel)
         /\ Len(src) >= 8 => vret.ok
    /\ pc = "voxel_into" =>
         /\ vret.ok => vret.size = 8
         /\ Len(bytes) >= 8 => vret.ok

\* C7 witness: a record whose reserved byte is not 128 has been encoded.
C7_Witness == pc = "voxel_into" /\ vret.ok /\ voxel.dummy # 128

\* The four bytes of m, most significant first.
BigEndian4(m) ==
    <<m \div 16777216, (m \div 65536) % 256, (m \div 256) % 256, m % 256>>

\* The bytes decode needs from src, by the counts src holds.
LongEnough(s, e) ==
    /\ Len(s) >= 32
    /\ Len(s) >= 32 + 8 * FromBytes(SubSeq(s, 29, 32), e) + 4 * FromBytes(SubSeq(s, 5, 8), e)

\* C8: decode of a long enough buffer succeeds whatever its first 4 bytes are
\* and stores them, read big-endian, as magic (4B 76 78 6C gives 0x4B76786C);
\* encode writes magic big-endian; both under either caller endianness.
C8_MagicBigEndian ==
    /\ (DecodeEnded /\ LongEnough(src, endian)) => pc = "from_ok"
    /\ pc = "from_ok" => BigEndian4(ret.val.magic) = SubSeq(src, 1, 4)
    /\ (pc = "from_ok" /\ SubSeq(src, 1, 4) = <<75, 118, 120, 108>>)
           => ret.val.magic = 1266055276
    /\ pc = "into_ok" => SubSeq(bytes, 1, 4) = BigEndian4(self.magic)

\* C8 witness: a little-endian caller has decoded a file whose magic is not the
\* format's tag.
C8_Witness ==
    pc = "from_ok" /\ origin = "file" /\ endian = LE /\ ret.val.magic = 16909060

\* C9: encode writes the low byte of height at record offset 4 and the high
\* byte at offset 5 and decode reads height as byte[4] + 256 * byte[5], under
\* either caller endianness; the 8 bytes of a record do not depend on it.
C9_HeightLittleEndian ==
    /\ (pc = "voxel_into" /\ vret.ok) =>
         /\ bytes[5] = voxel.height % 256
         /\ bytes[6] = voxel.height \div 256
         /\ \A e \in Endians :
              VoxelData_try_into_ctx(voxel, [i \in 1..Len(bytes) |-> 0], e).buf = bytes
    /\ (pc = "voxel_from" /\ vret.ok) => vret.val.height = src[5] + 256 * src[6]

\* C9 witness: a big-endian caller has encoded a record whose height bytes
\* differ.
C9_Witness == pc = "voxel_into" /\ vret.ok /\ endian = BE /\ voxel.height = 258

DecHeader ==
    {"from_magic", "from_x_size", "from_y_size", "from_z_size",
     "from_x_pivot", "from_y_pivot", "from_z_pivot", "from_num_voxels"}
EncHeader ==
    {"into_magic", "into_x_size", "into_y_size", "into_z_size",
     "into_x_pivot", "into_y_pivot", "into_z_pivot", "into_num_voxels"}

\* A step of the call under way (not the start of a call).
SameCall == pc' \notin {"from_magic", "into_magic"}

\* A step that read or wrote a field or an element.
FieldDone ==
    /\ SameCall
    /\ \/ pc \in DecHeader /\ pc' \notin {pc, "from_err"}
       \/ pc \in EncHeader /\ pc' \notin {pc, "into_err"}
       \/ Len(loc'.voxels) > Len(loc.voxels)
       \/ Len(loc'.xlen) > Len(loc.xlen)
       \/ idx' > idx

\* C10: the cursor of a model decode or encode starts at 0, no step of the call
\* decreases it, every successful read or write increases it, and on success
\* the returned offset is the sum of the widths of the fields processed.
C10_CursorMonotonic ==
    /\ [](pc \in {"from_magic", "into_magic"} => offset = 0)
    /\ [][SameCall => offset' >= offset]_vars
    /\ [][FieldDone => offset' > offset]_vars
    /\ [](pc = "from_ok" =>
            /\ ret.size = offset
            /\ offset = 32 + 8 * Len(ret.val.voxels) + 4 * Len(ret.val.xlen))
    /\ [](pc = "into_ok" =>
            /\ ret.size = offset
            /\ offset = 32 + 8 * Len(self.voxels) + 4 * Len(self.xlen))

\* C10 witness: a decode of a file with voxels and x_index entries has returned.
C10_Witness ==
    pc = "from_ok" /\ Len(ret.val.voxels) > 0 /\ Len(ret.val.xlen) > 0 /\ offset > 32

====
